---- MODULE Spec2Model ----
(***************************************************************************)
(* Model of src/pomodoro.js: the Pomodoro timer engine (state, setPhase,   *)
(* nextPhase, loop, start, pause, toggle, reset), the ratio-linked input   *)
(* handlers, and the two browser services the script uses: the clock       *)
(* performance.now() and the animation-frame callback list.                *)
(*                                                                         *)
(* Representation.                                                         *)
(*  - state.elapsed and state.duration are seconds in the script; here     *)
(*    they are kept in thousandths of a second (fixed point), so that      *)
(*    deltaMs / 1000 and elapsed * 1000 are exact.  A duration of m        *)
(*    minutes is m * 60 * MsPerSec.                                        *)
(*  - a text field's value is a string: "" is <<>>, the decimal text of    *)
(*    the integer n is <<n>>.  Number() and the assignment of a number to  *)
(*    .value convert between the two.                                      *)
(*  - null is Null; a non-null startTime / animationFrame x is <<x>>.      *)
(***************************************************************************)
EXTENDS Integers, Sequences, FiniteSets, TLC

VARIABLES
    state,      \* the script's state object (line 31)
    ui,         \* what the script reads and writes of the DOM elements (line 4)
    now,        \* performance.now(), in milliseconds
    frames      \* handles of the scheduled, not cancelled, animation-frame callbacks

vars == <<state, ui, now, frames>>

----------------------------------------------------------------------------
(* Bounds of the model *)

\* Spec: clock advances explored, each of StepMinutes minutes
MaxSteps == 4

\* Spec: completed focus phases explored since the last reset
MaxCycles == 3

\* SpecDisplay: clock advances explored, each of FineSteps milliseconds
MaxFineSteps == 5

\* SpecCycle: clock advances explored, each of RunMinutes minutes
MaxRunSteps == 32

\* SpecCycle: completed focus phases explored since the last reset
MaxRunCycles == 5

\* clock value when the script is loaded
LoadTime == 137

(* Program constants *)

FOCUS == "FOCUS"
SHORT == "SHORT BREAK"
LONG == "LONG BREAK"
PHASES == {FOCUS, SHORT, LONG}

LIMIT == 9000

\* thousandths per second: the 1000 of lines 110 and 130
MsPerSec == 1000

Null == <<>>

----------------------------------------------------------------------------
(* Inputs *)

\* what the document gives the focus and the cycles field when it is loaded
DocFocus == {<<25>>}
DocCycles == {<<4>>}

\* what a user types into the focus / short / long field
Typed == {<<>>, <<0>>, <<-5>>, <<3>>, <<9001>>}

\* what a user types into the cycles field: in Spec, and in SpecCycle
TypedCycles == {<<>>, <<2>>}
TypedRunCycles == {<<>>, <<0>>, <<-3>>, <<1>>, <<2>>, <<4>>}

\* the advances of the clock, in milliseconds
Minute == 60 * 1000
StepMinutes == {1}
RunMinutes == {5}

\* SpecDisplay: the advances of the clock, in milliseconds (20.3 seconds, so
\* that ticks fall on fractions of a second)
FineSteps == {20300}

----------------------------------------------------------------------------
(* JavaScript primitives as the script uses them *)

\* Number(text): "" is 0, decimal text is its value
Number(v) == IF v = <<>> THEN 0 ELSE v[1]

\* element.value = n: the decimal text of n
String(n) == <<n>>

\* Number(text) || d : a zero (or empty) field reads as d
NumberOr(v, d) == IF Number(v) = 0 THEN d ELSE Number(v)

\* Number(text || d) : only the empty text reads as d
NumberOfOr(v, d) == IF v = <<>> THEN d ELSE Number(v)

\* !x for a value that is null or a number
Not(x) == x = Null \/ x[1] = 0

Max(a, b) == IF a >= b THEN a ELSE b
Min(a, b) == IF a <= b THEN a ELSE b
Abs(a) == IF a < 0 THEN -a ELSE a

\* a % b of JavaScript: the result has the sign of a
Rem(a, b) == IF a >= 0 THEN a % Abs(b) ELSE -((-a) % Abs(b))

\* Math.round(n / d) for d > 0: the nearest integer, halves upwards
Round(n, d) == (2 * n + d) \div (2 * d)

RECURSIVE Gcd(_, _)
Gcd(a, b) == IF b = 0 THEN a ELSE Gcd(b, a % b)

\* the fraction n / d (d > 0) in lowest terms
Frac(n, d) == LET g == Gcd(Abs(n), d) IN <<n \div g, d \div g>>

\* ms / 1000: milliseconds as seconds (in thousandths), whole part first so
\* that no intermediate product leaves the 32-bit integers of TLC
Div1000(ms) == (ms \div 1000) * MsPerSec + ((ms % 1000) * MsPerSec) \div 1000

\* seconds * 1000: seconds (in thousandths) as milliseconds
Times1000(sec) == (sec \div MsPerSec) * 1000 + ((sec % MsPerSec) * 1000) \div MsPerSec

clamp(v, min, max) == Max(min, Min(max, v))

\* padStart(2, "0") of the decimal text of n >= 0
Pad2(n) == IF n < 10 THEN "0" \o ToString(n) ELSE ToString(n)

\* formatMMSS of a time given in thousandths of a second
formatMMSS(total) ==
    LET s == Max(0, total \div MsPerSec)
        m == s \div 60
        r == s % 60
    IN Pad2(m) \o ":" \o Pad2(r)

----------------------------------------------------------------------------
(* The browser's animation-frame callback list.  A handle identifies one   *)
(* scheduled callback; the browser numbers them upwards, and the script    *)
(* keeps at most one handle (state.animationFrame), so a handle that is    *)
(* neither scheduled nor held by the script can be given out again without *)
(* the script being able to tell.                                          *)

Handles == 1 .. 8

\* requestAnimationFrame(loop): the handle the browser returns
requestAnimationFrame(w) ==
    CHOOSE h \in Handles :
        /\ h \notin w.frames
        /\ <<h>> # w.state.animationFrame
        /\ \A g \in Handles :
              (g \notin w.frames /\ <<g>> # w.state.animationFrame) => h <= g

\* cancelAnimationFrame(handle): null and unknown handles are ignored
cancelAnimationFrame(w, handle) ==
    IF handle = Null THEN w.frames ELSE w.frames \ {handle[1]}

----------------------------------------------------------------------------
(* The timer engine.  Each operator maps the world w = [state, ui, frames] *)
(* before a function of the script runs to the world after it.             *)

\* stroke-dashoffset written by render, as a fraction of CIRCUMFERENCE
RingOffset(elapsed, duration) ==
    IF duration > 0 THEN Frac(duration - elapsed, duration) ELSE <<1, 1>>

render(w) ==
    LET remaining == Max(0, w.state.duration - w.state.elapsed)
    IN [w EXCEPT !.ui.timer = formatMMSS(remaining),
                 !.ui.strokeDashoffset =
                     RingOffset(w.state.elapsed, w.state.duration)]

\* the minutes setPhase reads for a phase (lines 71-78)
PhaseMinutes(u, newPhase) ==
    IF newPhase = FOCUS THEN NumberOr(u.inputFocus, 25)
    ELSE IF newPhase = SHORT THEN NumberOr(u.inputShort, 5)
    ELSE NumberOr(u.inputLong, 15)

setPhase(w, newPhase, fromTransition) ==
    LET minutes == PhaseMinutes(w.ui, newPhase)
        w1 == [w EXCEPT !.state.phase = newPhase,
                        !.state.elapsed = 0,
                        !.state.startTime = <<now>>,
                        !.state.duration = minutes * 60 * MsPerSec,
                        !.ui.label = newPhase]
    IN IF fromTransition THEN w1
       ELSE render([w1 EXCEPT !.ui.timer = formatMMSS(w1.state.duration)])

\* the cyclesBeforeLong nextPhase reads (line 92)
CyclesBeforeLong(u) == NumberOr(u.inputCycles, 4)

\* nextPhase counting every transition, not only the end of a focus phase
nextPhase_countsBreaks(w) ==
    LET w1 == [w EXCEPT !.state.cycleCount = @ + 1]
    IN IF w.state.phase = FOCUS
       THEN IF Rem(w1.state.cycleCount, CyclesBeforeLong(w.ui)) = 0
            THEN setPhase(w1, LONG, TRUE)
            ELSE setPhase(w1, SHORT, TRUE)
       ELSE setPhase(w1, FOCUS, TRUE)

\* nextPhase testing the count before it is incremented
nextPhase_testsBeforeIncrement(w) ==
    IF w.state.phase = FOCUS
    THEN LET w1 == [w EXCEPT !.state.cycleCount = @ + 1]
         IN IF Rem(w.state.cycleCount, CyclesBeforeLong(w.ui)) = 0
            THEN setPhase(w1, LONG, TRUE)
            ELSE setPhase(w1, SHORT, TRUE)
    ELSE setPhase(w, FOCUS, TRUE)

nextPhase(w) ==
    IF w.state.phase = FOCUS
    THEN LET w1 == [w EXCEPT !.state.cycleCount = @ + 1]
             cyclesBeforeLong == CyclesBeforeLong(w.ui)
         IN IF Rem(w1.state.cycleCount, cyclesBeforeLong) = 0
            THEN setPhase(w1, LONG, TRUE)
            ELSE setPhase(w1, SHORT, TRUE)
    ELSE setPhase(w, FOCUS, TRUE)

\* the phase boundary carrying the overshoot into the next phase
loopBoundary_carriesOvershoot(w) ==
    IF w.state.elapsed >= w.state.duration
    THEN LET w1 == render([w EXCEPT !.state.elapsed = w.state.duration])
             w2 == nextPhase(w1)
         IN [w2 EXCEPT !.state.elapsed = w.state.elapsed - w.state.duration]
    ELSE w

\* lines 112-117: the phase boundary
loopBoundary(w) ==
    IF w.state.elapsed >= w.state.duration
    THEN LET w1 == render([w EXCEPT !.state.elapsed = w.state.duration])
             w2 == nextPhase(w1)
         IN [w2 EXCEPT !.state.startTime = <<now>>]
    ELSE w

\* the end of loop without the redraw of line 119
loopRearm_withoutRender(w) ==
    LET h == requestAnimationFrame(w)
    IN [w EXCEPT !.state.animationFrame = <<h>>, !.frames = @ \cup {h}]

\* the end of loop without the requestAnimationFrame of line 120
loopRearm_withoutRequest(w) == render(w)

\* lines 119-120: redraw and re-arm
loopRearm(w) ==
    LET w1 == render(w)
        h == requestAnimationFrame(w1)
    IN [w1 EXCEPT !.state.animationFrame = <<h>>, !.frames = @ \cup {h}]

\* lines 107-110: the elapsed time of this frame
loopElapsed(w, timestamp) ==
    LET w1 == IF Not(w.state.startTime)
              THEN [w EXCEPT !.state.startTime = <<timestamp>>]
              ELSE w
        deltaMs == timestamp - w1.state.startTime[1]
    IN [w1 EXCEPT !.state.elapsed = Div1000(deltaMs)]

\* loop without the isRunning guard of line 105
loop_withoutGuard(w, timestamp) ==
    loopRearm(loopBoundary(loopElapsed(w, timestamp)))

loop(w, timestamp) ==
    IF ~w.state.isRunning THEN w
    ELSE loopRearm(loopBoundary(loopElapsed(w, timestamp)))

\* start keeping the old time reference instead of rebasing it
Rebase_keepsReference(st) == st.startTime[1]

\* line 130: the time reference of a resumed countdown
Rebase(st) == now - Times1000(st.elapsed)

\* start without the isRunning guard of line 126
start_withoutGuard(w) ==
    LET w1 == IF Not(w.state.startTime)
              THEN IF w.state.elapsed = 0 /\ w.state.duration = 0
                   THEN setPhase(w, FOCUS, FALSE)
                   ELSE w
              ELSE [w EXCEPT !.state.startTime = <<Rebase(w.state)>>]
        w2 == [w1 EXCEPT !.state.isRunning = TRUE,
                         !.ui.btnToggle = "Pause"]
        h == requestAnimationFrame(w2)
    IN [w2 EXCEPT !.state.animationFrame = <<h>>, !.frames = @ \cup {h}]

start(w) ==
    IF w.state.isRunning THEN w
    ELSE LET w1 == IF Not(w.state.startTime)
                   THEN IF w.state.elapsed = 0 /\ w.state.duration = 0
                        THEN setPhase(w, FOCUS, FALSE)
                        ELSE w
                   ELSE [w EXCEPT !.state.startTime = <<Rebase(w.state)>>]
             w2 == [w1 EXCEPT !.state.isRunning = TRUE,
                              !.ui.btnToggle = "Pause"]
             h == requestAnimationFrame(w2)
         IN [w2 EXCEPT !.state.animationFrame = <<h>>, !.frames = @ \cup {h}]

\* pause without the isRunning guard of line 138
pause_withoutGuard(w) ==
    [w EXCEPT !.state.isRunning = FALSE,
              !.ui.btnToggle = "Resume",
              !.frames = cancelAnimationFrame(w, w.state.animationFrame)]

\* pause labelling the control Start
pause_labelsStart(w) ==
    IF ~w.state.isRunning THEN w
    ELSE [w EXCEPT !.state.isRunning = FALSE,
                   !.ui.btnToggle = "Start",
                   !.frames = cancelAnimationFrame(w, w.state.animationFrame)]

\* pause without cancelAnimationFrame
pause_withoutCancel(w) ==
    IF ~w.state.isRunning THEN w
    ELSE [w EXCEPT !.state.isRunning = FALSE,
                   !.ui.btnToggle = "Resume"]

pause(w) ==
    IF ~w.state.isRunning THEN w
    ELSE [w EXCEPT !.state.isRunning = FALSE,
                   !.ui.btnToggle = "Resume",
                   !.frames = cancelAnimationFrame(w, w.state.animationFrame)]

toggle(w) == IF w.state.isRunning THEN pause(w) ELSE start(w)

\* line 155: the duration reset computes
ResetDuration(u) == NumberOfOr(u.inputFocus, 25) * 60 * MsPerSec

\* reset writing the default into an empty focus field
reset_fillsDefault(w) ==
    LET duration == ResetDuration(w.ui)
    IN [w EXCEPT !.state.isRunning = FALSE,
                 !.frames = cancelAnimationFrame(w, w.state.animationFrame),
                 !.state.phase = FOCUS,
                 !.state.cycleCount = 0,
                 !.state.startTime = Null,
                 !.state.duration = duration,
                 !.state.elapsed = 0,
                 !.ui.inputFocus = String(NumberOfOr(@, 25)),
                 !.ui.label = "READY",
                 !.ui.btnToggle = "Start",
                 !.ui.timer = formatMMSS(duration),
                 !.ui.strokeDashoffset = <<1, 1>>]

\* reset leaving cycleCount as it is
reset_keepsCycleCount(w) ==
    LET duration == ResetDuration(w.ui)
    IN [w EXCEPT !.state.isRunning = FALSE,
                 !.frames = cancelAnimationFrame(w, w.state.animationFrame),
                 !.state.phase = FOCUS,
                 !.state.startTime = Null,
                 !.state.duration = duration,
                 !.state.elapsed = 0,
                 !.ui.label = "READY",
                 !.ui.timer = formatMMSS(duration),
                 !.ui.btnToggle = "Start",
                 !.ui.strokeDashoffset = <<1, 1>>]

reset(w) ==
    LET duration == ResetDuration(w.ui)
    IN [w EXCEPT !.state.isRunning = FALSE,
                 !.frames = cancelAnimationFrame(w, w.state.animationFrame),
                 !.state.phase = FOCUS,
                 !.state.cycleCount = 0,
                 !.state.startTime = Null,
                 !.state.duration = duration,
                 !.state.elapsed = 0,
                 !.ui.label = "READY",
                 !.ui.timer = formatMMSS(duration),
                 !.ui.btnToggle = "Start",
                 !.ui.strokeDashoffset = <<1, 1>>]

----------------------------------------------------------------------------
(* The input synchronizer: the three change handlers *)

\* the focus handler resetting whether or not the timer runs
changeFocus_alwaysResets(w) ==
    LET f == NumberOr(w.ui.inputFocus, 25)
    IN reset([w EXCEPT
                !.ui.inputShort = String(clamp(Round(f, 5), 1, LIMIT)),
                !.ui.inputLong = String(clamp(Round(f * 6, 10), 5, LIMIT))])

\* the focus handler with Math.floor for the short break
changeFocus_floorsShort(w) ==
    LET f == NumberOr(w.ui.inputFocus, 25)
        w1 == [w EXCEPT
                 !.ui.inputShort = String(clamp(f \div 5, 1, LIMIT)),
                 !.ui.inputLong = String(clamp(Round(f * 6, 10), 5, LIMIT))]
    IN IF ~w1.state.isRunning THEN reset(w1) ELSE w1

\* lines 171-179
changeFocus(w) ==
    LET f == NumberOr(w.ui.inputFocus, 25)
        w1 == [w EXCEPT
                 !.ui.inputShort = String(clamp(Round(f, 5), 1, LIMIT)),
                 !.ui.inputLong = String(clamp(Round(f * 6, 10), 5, LIMIT))]
    IN IF ~w1.state.isRunning THEN reset(w1) ELSE w1

\* the short handler without its reset
changeShort_withoutReset(w) ==
    LET s == NumberOr(w.ui.inputShort, 5)
    IN [w EXCEPT !.ui.inputFocus = String(clamp(s * 5, 5, LIMIT)),
                 !.ui.inputLong = String(clamp(s * 3, 5, LIMIT))]

\* lines 182-190
changeShort(w) ==
    LET s == NumberOr(w.ui.inputShort, 5)
        w1 == [w EXCEPT
                 !.ui.inputFocus = String(clamp(s * 5, 5, LIMIT)),
                 !.ui.inputLong = String(clamp(s * 3, 5, LIMIT))]
    IN IF ~w1.state.isRunning THEN reset(w1) ELSE w1

\* lines 193-201
changeLong(w) ==
    LET l == NumberOr(w.ui.inputLong, 15)
        w1 == [w EXCEPT
                 !.ui.inputFocus = String(clamp(Round(l * 10, 6), 5, LIMIT)),
                 !.ui.inputShort = String(clamp(Round(l, 3), 1, LIMIT))]
    IN IF ~w1.state.isRunning THEN reset(w1) ELSE w1

----------------------------------------------------------------------------
(* The state machine *)

World == [state |-> state, ui |-> ui, frames |-> frames]

Becomes(w) ==
    /\ state' = w.state
    /\ ui' = w.ui
    /\ frames' = w.frames

\* the state object of line 31
state0 ==
    [isRunning |-> FALSE, phase |-> FOCUS, cycleCount |-> 0, startTime |-> Null,
     duration |-> 0, elapsed |-> 0, animationFrame |-> Null]

\* the elements as the document gives them to the script: the focus and
\* cycles fields hold what the document says, the ring is set by line 28
ui0(focus, cycles) ==
    [label |-> "", timer |-> "", btnToggle |-> "", strokeDashoffset |-> <<1, 1>>,
     inputFocus |-> focus, inputShort |-> <<>>, inputLong |-> <<>>,
     inputCycles |-> cycles]

\* lines 217-218: the script dispatches a change on the focus field, then resets
Load(focus, cycles) ==
    reset(changeFocus([state |-> state0, ui |-> ui0(focus, cycles), frames |-> {}]))

Init ==
    /\ now = LoadTime
    /\ \E focus \in DocFocus, cycles \in DocCycles :
          LET w == Load(focus, cycles)
          IN state = w.state /\ ui = w.ui /\ frames = w.frames

\* click on the toggle button, or the Space key (lines 204, 209-212)
Toggle ==
    /\ Becomes(toggle(World))
    /\ UNCHANGED now

\* click on the reset button, or the R key (lines 205, 213)
Reset ==
    /\ Becomes(reset(World))
    /\ UNCHANGED now

\* the user types v into a field and leaves it: the change event
EditFocus ==
    /\ \E v \in Typed : Becomes(changeFocus([World EXCEPT !.ui.inputFocus = v]))
    /\ UNCHANGED now

EditShort ==
    /\ \E v \in Typed : Becomes(changeShort([World EXCEPT !.ui.inputShort = v]))
    /\ UNCHANGED now

EditLong ==
    /\ \E v \in Typed : Becomes(changeLong([World EXCEPT !.ui.inputLong = v]))
    /\ UNCHANGED now

\* the cycles field has no handler: an edit only changes its value
EditCyclesFrom(typed) ==
    /\ \E v \in typed : ui' = [ui EXCEPT !.inputCycles = v]
    /\ UNCHANGED <<state, now, frames>>

EditCycles == EditCyclesFrom(TypedCycles)

\* the browser runs a scheduled callback with the frame's timestamp
RunFrame ==
    /\ \E h \in frames :
          Becomes(loop([World EXCEPT !.frames = @ \ {h}], now))
    /\ UNCHANGED now

Frame ==
    /\ state.cycleCount < MaxCycles
    /\ RunFrame

\* time passes
AdvanceBy(minutes, horizon) ==
    /\ \E m \in minutes :
          /\ now + m * Minute <= LoadTime + horizon * Minute
          /\ now' = now + m * Minute
    /\ UNCHANGED <<state, ui, frames>>

Advance == AdvanceBy(StepMinutes, MaxSteps)

Next ==
    \/ Toggle
    \/ Reset
    \/ EditFocus
    \/ EditShort
    \/ EditLong
    \/ EditCycles
    \/ Frame
    \/ Advance

Spec == Init /\ [][Next]_vars

----------------------------------------------------------------------------
(* The countdown with the duration fields left as loaded and the cycles    *)
(* field edited only while the timer shows READY, over a longer time.      *)

AtReady == ~state.isRunning /\ state.startTime = Null

EditCyclesAtReady ==
    /\ AtReady
    /\ EditCyclesFrom(TypedRunCycles)

FrameRun ==
    /\ state.cycleCount < MaxRunCycles
    /\ RunFrame

AdvanceRun == AdvanceBy(RunMinutes, MaxRunSteps * 5)

NextCycle ==
    \/ Toggle
    \/ Reset
    \/ EditCyclesAtReady
    \/ FrameRun
    \/ AdvanceRun

SpecCycle == Init /\ [][NextCycle]_vars

----------------------------------------------------------------------------
(* The input synchronizer alone: the document gives the focus field any    *)
(* value of its range, the load performs the focus edit (line 217), and    *)
(* the derived short or long value is then entered again in its own field. *)

FocusRange == 5 .. LIMIT

InitRatio ==
    /\ now = LoadTime
    /\ \E f \in FocusRange, cycles \in DocCycles :
          LET w == Load(String(f), cycles)
          IN state = w.state /\ ui = w.ui /\ frames = w.frames

\* a change event on the short field with the text it holds
FeedShort ==
    /\ Becomes(changeShort(World))
    /\ UNCHANGED now

\* a change event on the long field with the text it holds
FeedLong ==
    /\ Becomes(changeLong(World))
    /\ UNCHANGED now

NextRatio ==
    \/ FeedShort
    \/ FeedLong

SpecRatio == InitRatio /\ [][NextRatio]_vars

----------------------------------------------------------------------------
(* The timer with a clock that advances by fractions of a second: the      *)
(* buttons, the focus field and the frames.                                *)

AdvanceFine ==
    /\ \E d \in FineSteps :
          /\ now + d <= LoadTime + MaxFineSteps * 20300
          /\ now' = now + d
    /\ UNCHANGED <<state, ui, frames>>

NextDisplay ==
    \/ Toggle
    \/ Reset
    \/ EditFocus
    \/ EditShort
    \/ Frame
    \/ AdvanceFine

SpecDisplay == Init /\ [][NextDisplay]_vars

----------------------------------------------------------------------------
(* The timer started once and then left alone: the cycles field is edited  *)
(* only before the start, the browser keeps delivering the scheduled       *)
(* frames and the clock keeps advancing.                                   *)

StartOnce ==
    /\ ~state.isRunning
    /\ Toggle

NextLive ==
    \/ EditCyclesAtReady
    \/ StartOnce
    \/ RunFrame
    \/ AdvanceRun

\* a scheduled frame is delivered: the handle is taken and, the timer running,
\* loop schedules the next one, which is another handle
FrameDelivered == frames # {} /\ frames' # frames

\* weak fairness of RunFrame, written with what enables it (a scheduled frame)
\* and with the step it takes: the browser does not hold a scheduled frame back
\* for ever
FrameFair == []<>(frames = {}) \/ []<><<FrameDelivered>>_vars

SpecLive ==
    /\ Init
    /\ [][NextLive]_vars
    /\ FrameFair
    /\ WF_vars(AdvanceRun)

----------------------------------------------------------------------------
(* Properties *)

\* the timer was stopped by pause() and not started, reset or edited since
Paused == ~state.isRunning /\ ui.btnToggle = "Resume"

\* a frame delivered now finds the phase's time used up
Completes ==
    /\ state.isRunning
    /\ (IF state.startTime = Null THEN 0 ELSE Div1000(now - state.startTime[1]))
          >= state.duration

\* a phase of m minutes, in the unit of state.duration
MinutesLong(m) == m * 60 * MsPerSec

\* the focus length a field text configures: its number, 25 for the empty text
FocusLength(u) == IF u.inputFocus = <<>> THEN 25 ELSE u.inputFocus[1]

\* the countdown text of a full phase of m minutes
FullText(m) == IF m < 0 THEN "00:00" ELSE Pad2(m) \o ":00"

EditDuration == EditFocus \/ EditShort \/ EditLong

\* C1: a tick that completes FOCUS adds one to cycleCount and enters LONG BREAK
\* when the new cycleCount is a multiple of cyclesBeforeLong, else SHORT BREAK;
\* a tick that completes a break enters FOCUS.  With cyclesBeforeLong = 4 the
\* break entered after the k-th focus is LONG exactly for k = 4 (k <= 5).
C1_Rule ==
    RunFrame /\ Completes =>
        IF state.phase = FOCUS
        THEN /\ state'.cycleCount = state.cycleCount + 1
             /\ state'.phase =
                  IF Rem(state.cycleCount + 1, CyclesBeforeLong(ui)) = 0
                  THEN LONG ELSE SHORT
        ELSE /\ state'.phase = FOCUS
             /\ state'.cycleCount = state.cycleCount

C1_Sequence ==
    (CyclesBeforeLong(ui) = 4 /\ state.phase # FOCUS) =>
        /\ state.cycleCount >= 1
        /\ state.phase = LONG <=> state.cycleCount % 4 = 0

C1_PhaseCycle == [][C1_Rule]_vars /\ []C1_Sequence

C1_FifthFocusDone ==
    /\ CyclesBeforeLong(ui) = 4
    /\ state.phase = SHORT
    /\ state.cycleCount = 5

\* C2: in every reachable state 0 <= elapsed <= duration.
C2_ElapsedWithinDuration ==
    0 <= state.elapsed /\ state.elapsed <= state.duration

\* C3: from any reachable state reset() gives FOCUS, not running, cycleCount 0,
\* elapsed 0, no time reference, duration 60 x the configured focus length,
\* label READY, control Start, the full focus duration shown, the ring empty.
C3_ResetResult ==
    LET w == reset(World)
    IN /\ w.state.phase = FOCUS
       /\ ~w.state.isRunning
       /\ w.state.cycleCount = 0
       /\ w.state.elapsed = 0
       /\ w.state.startTime = Null
       /\ w.state.duration = MinutesLong(FocusLength(ui))
       /\ w.ui.label = "READY"
       /\ w.ui.btnToggle = "Start"
       /\ w.ui.timer = FullText(FocusLength(ui))
       /\ w.ui.strokeDashoffset = <<1, 1>>

C3_ResetMidBreak ==
    /\ state.isRunning
    /\ state.phase # FOCUS
    /\ state.cycleCount > 0
    /\ state.elapsed > 0
    /\ reset(World).state.cycleCount = 0
    /\ reset(World).state # state

\* C4: after any edit of the focus, short or long field all three fields are in
\* range: focus and long in [5, 9000], short in [1, 9000].
C4_InRange(u) ==
    /\ u.inputFocus # <<>> /\ u.inputFocus[1] \in 5 .. LIMIT
    /\ u.inputShort # <<>> /\ u.inputShort[1] \in 1 .. LIMIT
    /\ u.inputLong # <<>> /\ u.inputLong[1] \in 5 .. LIMIT

C4_FieldsInRange == [][EditDuration => C4_InRange(ui')]_vars

\* C5: a zero or empty field reads as the documented default wherever the engine
\* reads it, and no operation leaves a duration of 0.
C5_DefaultsEverywhere ==
    /\ state.duration # 0
    /\ Number(ui.inputFocus) = 0 => reset(World).state.duration = MinutesLong(25)

\* C6: exactly one callback is scheduled while running, none while not running,
\* and the scheduled one is the one whose handle the engine holds.
C6_OneLoop ==
    /\ Cardinality(frames) = IF state.isRunning THEN 1 ELSE 0
    /\ state.isRunning => frames = {state.animationFrame[1]}

C6_PausedNothingScheduled ==
    /\ Paused
    /\ state.animationFrame # Null
    /\ frames = {}

\* C7: while the timer stays paused, phase, cycleCount, elapsed and duration do
\* not change, whatever time passes; and a frame callback run on a paused timer
\* changes nothing.
C7_PausedStep ==
    (Paused /\ Paused') =>
        /\ state'.phase = state.phase
        /\ state'.cycleCount = state.cycleCount
        /\ state'.elapsed = state.elapsed
        /\ state'.duration = state.duration

C7_PausedFrame == Paused => loop(World, now) = World

C7_PauseHolds == [][C7_PausedStep]_vars /\ []C7_PausedFrame

C7_TimePassedPaused ==
    /\ Paused
    /\ state.startTime # Null
    /\ state.elapsed > 0
    /\ state.elapsed < state.duration
    /\ now - state.startTime[1] >= state.duration

\* the delays between start() and the first tick after it, in milliseconds
TickDelays == {0, 16, 1000, 60000}

\* the elapsed time the first tick computes, d milliseconds after start()
ResumedElapsed(d) == loopElapsed(start(World), now + d).state.elapsed

\* C8 as stated: paused with elapsed e, start() at r and a tick at t >= r give
\* elapsed = e + (t - r)/1000, also when no tick ran between reset and pause.
C8_ResumeAddsDelay ==
    Paused => \A d \in TickDelays : ResumedElapsed(d) = state.elapsed + Div1000(d)

\* C8 amended: with a time reference at start(), the tick computes
\* e + (t - r)/1000; without one (no tick ran since the reset) e is 0 and the
\* tick computes 0; in both cases the result is not below e.
C8_ResumeKeepsElapsed ==
    Paused => \A d \in TickDelays :
        /\ ResumedElapsed(d) >= state.elapsed
        /\ IF state.startTime # Null
           THEN ResumedElapsed(d) = state.elapsed + Div1000(d)
           ELSE state.elapsed = 0 /\ ResumedElapsed(d) = 0

C8_ResumeAfterLongPause ==
    /\ Paused
    /\ state.startTime # Null
    /\ state.elapsed > 0
    /\ now - state.startTime[1] > Times1000(state.elapsed)
    /\ ResumedElapsed(1000) = state.elapsed + MsPerSec

\* what a change event with the text v does to the world, per field
AfterEdits(v) ==
    {changeFocus([World EXCEPT !.ui.inputFocus = v]),
     changeShort([World EXCEPT !.ui.inputShort = v]),
     changeLong([World EXCEPT !.ui.inputLong = v])}

\* C9: an edit of a duration field while running changes nothing of the engine's
\* state; while running the duration changes only at a phase transition or a
\* reset, and a transition takes the duration from the fields as they are then.
C9_RunningEdit ==
    state.isRunning =>
        \A v \in Typed : \A w \in AfterEdits(v) :
            w.state = state /\ w.frames = frames

C9_Step ==
    /\ (state.isRunning /\ state'.duration # state.duration) =>
          (RunFrame /\ Completes) \/ Reset
    /\ (state.isRunning /\ state'.isRunning /\ state'.phase # state.phase) =>
          state'.duration = MinutesLong(PhaseMinutes(ui, state'.phase))

C9_EditDeferred == []C9_RunningEdit /\ [][C9_Step]_vars

C9_RunningOnOldDuration ==
    /\ state.isRunning
    /\ state.elapsed > 0
    /\ state.duration # MinutesLong(PhaseMinutes(ui, state.phase))

\* C10: an edit of a duration field while not running resets: FOCUS, cycleCount
\* 0, elapsed 0, duration 60 x the focus field's value after the handler ran,
\* and the display shows that duration.
C10_Reset(w) ==
    /\ ~w.state.isRunning
    /\ w.state.phase = FOCUS
    /\ w.state.cycleCount = 0
    /\ w.state.elapsed = 0
    /\ w.state.duration = MinutesLong(FocusLength(w.ui))
    /\ w.ui.timer = FullText(FocusLength(w.ui))

C10_EditResets ==
    ~state.isRunning => \A v \in Typed : \A w \in AfterEdits(v) : C10_Reset(w)

C10_EditPausedInBreak ==
    /\ Paused
    /\ state.phase # FOCUS
    /\ state.cycleCount > 0
    /\ state.elapsed > 0
    /\ LET w == changeShort([World EXCEPT !.ui.inputShort = <<3>>])
       IN /\ w.state.phase = FOCUS
          /\ w.state.cycleCount = 0
          /\ w.state.duration = MinutesLong(15)

\* the fields are as a focus edit leaves them: focus in range, short and long
\* the values the focus handler derives from it
AfterFocusEdit ==
    /\ ui.inputFocus # <<>> /\ ui.inputFocus[1] \in FocusRange
    /\ changeFocus(World).ui.inputShort = ui.inputShort
    /\ changeFocus(World).ui.inputLong = ui.inputLong

\* how far the focus field is from its value after the derived short (long)
\* value went through the short (long) handler
ShortTripError == Abs(Number(changeShort(World).ui.inputFocus) - Number(ui.inputFocus))
LongTripError == Abs(Number(changeLong(World).ui.inputFocus) - Number(ui.inputFocus))

\* C11 as stated: after a focus edit with any focus in [5, 9000], feeding the
\* derived short or long value back gives a focus within 1 of the original.
C11_RoundTripWithinOne ==
    AfterFocusEdit => ShortTripError <= 1 /\ LongTripError <= 1

\* C11 amended: within 2 through the short field; through the long field within
\* 1 when focus >= 7, and within 3 for focus 5 and 6, whose derived long value
\* is raised to the minimum 5.
C11_RoundTripBounds ==
    AfterFocusEdit =>
        /\ ShortTripError <= 2
        /\ LongTripError <= IF Number(ui.inputFocus) >= 7 THEN 1 ELSE 3

C11_EightBecomesTen ==
    /\ AfterFocusEdit
    /\ ui.inputFocus = <<8>>
    /\ ui.inputShort = <<2>>
    /\ changeShort(World).ui.inputFocus = <<10>>

\* C12: pause() called twice leaves the same state, outputs and scheduled
\* callbacks as pause() called once, and pause() on a timer that is not running
\* changes nothing.
C12_PauseIdempotent ==
    /\ pause(pause(World)) = pause(World)
    /\ ~state.isRunning => pause(World) = World

C12_PauseOfRunning ==
    /\ state.isRunning
    /\ state.elapsed > 0
    /\ pause(World) # World
    /\ ~pause(World).state.isRunning
    /\ pause(World).frames = {}
    /\ pause(pause(World)) = pause(World)

\* the world after the scheduled callback runs with the present clock value
TickNow == loop([World EXCEPT !.frames = {}], now)

\* C13: a tick of a running timer that does not reach the duration keeps the
\* phase and computes an elapsed time not below the one of the tick before
\* (which pause and start leave as it is); a tick that reaches the duration
\* makes one phase transition and leaves elapsed = 0 with the time reference at
\* the present clock value.
C13_TickMonotone ==
    /\ toggle(World).state.elapsed = state.elapsed
    /\ state.isRunning =>
          IF Completes
          THEN /\ TickNow.state.elapsed = 0
               /\ TickNow.state.startTime = <<now>>
               /\ IF state.phase = FOCUS
                  THEN /\ TickNow.state.phase \in {SHORT, LONG}
                       /\ TickNow.state.cycleCount = state.cycleCount + 1
                  ELSE /\ TickNow.state.phase = FOCUS
                       /\ TickNow.state.cycleCount = state.cycleCount
          ELSE /\ TickNow.state.phase = state.phase
               /\ TickNow.state.cycleCount = state.cycleCount
               /\ TickNow.state.elapsed >= state.elapsed

C13_TickPastBoundary ==
    /\ state.isRunning
    /\ state.startTime # Null
    /\ state.duration > 0
    /\ Div1000(now - state.startTime[1]) > state.duration
    /\ TickNow.state.phase # state.phase
    /\ TickNow.state.elapsed = 0

\* C14: cycleCount changes only by +1 at a transition from FOCUS to a break and
\* to 0 at a reset; start, pause, a tick without transition, a transition from
\* a break to FOCUS and an edit while running leave it as it is.
C14_Change ==
    state'.cycleCount # state.cycleCount =>
        \/ /\ state.isRunning /\ state'.isRunning
           /\ state.phase = FOCUS /\ state'.phase \in {SHORT, LONG}
           /\ state'.cycleCount = state.cycleCount + 1
        \/ /\ state'.cycleCount = 0
           /\ ~state'.isRunning /\ state'.phase = FOCUS
           /\ state'.startTime = Null /\ state'.elapsed = 0
           /\ ui'.label = "READY" /\ ui'.btnToggle = "Start"

C14_Kept ==
    /\ toggle(World).state.cycleCount = state.cycleCount
    /\ start(World).state.cycleCount = state.cycleCount
    /\ pause(World).state.cycleCount = state.cycleCount
    /\ state.isRunning =>
          /\ (~Completes \/ state.phase # FOCUS) =>
                TickNow.state.cycleCount = state.cycleCount
          /\ \A v \in Typed : \A w \in AfterEdits(v) :
                w.state.cycleCount = state.cycleCount

C14_CycleCount == [][C14_Change]_vars /\ []C14_Kept

C14_SecondFocusEnds ==
    /\ state.isRunning
    /\ state.phase = FOCUS
    /\ state.cycleCount >= 1
    /\ Completes
    /\ TickNow.state.cycleCount = state.cycleCount + 1

\* the countdown text of a remaining time (in thousandths of a second): whole
\* seconds, rounded down, as minutes and seconds of two digits at least
CountdownText(remaining) ==
    LET whole == remaining \div MsPerSec
    IN Pad2(whole \div 60) \o ":" \o Pad2(whole % 60)

\* elapsed / duration in lowest terms, 0 when the duration is 0
FillFraction(e, d) ==
    IF d = 0 \/ e = 0 THEN <<0, 1>>
    ELSE IF d > 0 THEN Frac(e, d) ELSE Frac(-e, -d)

\* the filled part of the ring: 1 - strokeDashoffset / CIRCUMFERENCE
RingFill(u) ==
    <<u.strokeDashoffset[2] - u.strokeDashoffset[1], u.strokeDashoffset[2]>>

\* C15: in every state the countdown shows floor(max(0, duration - elapsed)) as
\* minutes:seconds, and the ring is filled to elapsed / duration (0 when the
\* duration is 0).
C15_DisplayAgrees ==
    /\ ui.timer = CountdownText(Max(0, state.duration - state.elapsed))
    /\ RingFill(ui) = FillFraction(state.elapsed, state.duration)

C15_FractionShown ==
    /\ state.cycleCount >= 1
    /\ state.elapsed % MsPerSec # 0
    /\ state.duration > state.elapsed
    /\ ui.timer = "00:39"
    /\ RingFill(ui) = <<203, 600>>

\* the four configuration fields
Fields(u) == <<u.inputFocus, u.inputShort, u.inputLong, u.inputCycles>>

\* what the engine's operations make of the present state
EngineResults ==
    {toggle(World), start(World), pause(World), reset(World),
     nextPhase(World), TickNow}
       \cup {setPhase(World, p, b) : p \in PHASES, b \in BOOLEAN}

\* C16: setPhase, nextPhase, the tick, start, pause, toggle and reset leave the
\* focus, short-break, long-break and cycles fields as they are.
C16_EngineKeepsFields == \A w \in EngineResults : Fields(w.ui) = Fields(ui)

C16_TransitionKeepsBadField ==
    /\ state.isRunning /\ Completes
    /\ ui.inputFocus = <<-5>>
    /\ TickNow.state.phase # state.phase
    /\ Fields(TickNow.ui) = Fields(ui)

\* a timer that has no time reference, no elapsed time and no duration
Blank ==
    /\ ~state.isRunning
    /\ state.startTime = Null
    /\ state.elapsed = 0
    /\ state.duration = 0

\* the minutes of the focus field, 25 by default
FocusOrDefault(u) ==
    IF u.inputFocus = <<>> \/ u.inputFocus = <<0>> THEN 25 ELSE u.inputFocus[1]

\* C17: start of a running timer changes nothing and schedules nothing; start
\* of a blank timer sets up FOCUS for the minutes of the focus field (25 by
\* default) and runs; start of any other stopped timer runs and keeps phase,
\* cycleCount, elapsed and duration.
C17_Start ==
    /\ state.isRunning => start(World) = World
    /\ Blank =>
          /\ start(World).state.isRunning
          /\ start(World).state.phase = FOCUS
          /\ start(World).state.elapsed = 0
          /\ start(World).state.duration = MinutesLong(FocusOrDefault(ui))
          /\ start(World).state.cycleCount = state.cycleCount
          /\ Cardinality(start(World).frames) = 1
    /\ ~state.isRunning /\ ~Blank =>
          /\ start(World).state.isRunning
          /\ start(World).state.phase = state.phase
          /\ start(World).state.cycleCount = state.cycleCount
          /\ start(World).state.elapsed = state.elapsed
          /\ start(World).state.duration = state.duration
          /\ Cardinality(start(World).frames) = 1

C17_BlankStarted ==
    /\ Blank
    /\ ui.inputFocus = <<0>>
    /\ start(World).state.duration = MinutesLong(25)
    /\ start(World).state.isRunning

\* the label shows READY or the phase, and READY only before the first
\* transition
C18_LabelOfPhase ==
    /\ ui.label \in {"READY", state.phase}
    /\ ui.label = "READY" => state.phase = FOCUS /\ state.cycleCount = 0

\* a step that takes READY away is the first transition: a running FOCUS ends
C18_ReadyStays ==
    ui.label = "READY" /\ ui'.label # "READY" =>
        /\ state.isRunning /\ state.phase = FOCUS
        /\ state'.phase # FOCUS
        /\ state'.cycleCount = 1

\* C18: the label is READY or the name of the phase; READY only with phase
\* FOCUS and cycleCount 0; from reset it stays READY through start and the
\* first focus countdown, until the first transition.
C18_Label == []C18_LabelOfPhase /\ [][C18_ReadyStays]_vars

\* the control reads Pause exactly while running; a stopped timer whose control
\* reads Start is as reset leaves it
C19_ControlOfState ==
    /\ state.isRunning <=> ui.btnToggle = "Pause"
    /\ ~state.isRunning => ui.btnToggle \in {"Start", "Resume"}
    /\ ~state.isRunning /\ ui.btnToggle = "Start" =>
          /\ state.phase = FOCUS /\ state.cycleCount = 0
          /\ state.elapsed = 0 /\ state.startTime = Null
          /\ ui.label = "READY"
    /\ reset(World).ui.btnToggle = "Start"
    /\ state.isRunning => pause(World).ui.btnToggle = "Resume"

\* the control comes to read Resume by a pause of a running timer, and a
\* stopped timer leaves Resume only by starting or by a reset
C19_ControlStep ==
    /\ ui'.btnToggle = "Resume" /\ ui.btnToggle # "Resume" =>
          /\ state.isRunning
          /\ state' = pause(World).state
          /\ frames' = {}
    /\ ui.btnToggle = "Resume" /\ ui'.btnToggle = "Start" =>
          /\ state'.cycleCount = 0 /\ state'.elapsed = 0
          /\ state'.startTime = Null /\ ui'.label = "READY"

\* C19: the control reads Pause exactly when isRunning; when not running it
\* reads Start if the last stop was a reset and Resume if it was a pause.
C19_Control == []C19_ControlOfState /\ [][C19_ControlStep]_vars

C19_PausedInSecondCycle ==
    /\ ~state.isRunning
    /\ ui.btnToggle = "Resume"
    /\ state.cycleCount >= 1
    /\ reset(World).ui.btnToggle = "Start"
    /\ start(World).ui.btnToggle = "Pause"

\* the running phase has a time reference and its end lies within the time the
\* clock reaches
EndsInTime ==
    /\ state.isRunning
    /\ state.startTime # Null
    /\ state.startTime[1] + Times1000(state.duration)
          <= LoadTime + MaxRunSteps * 5 * Minute

\* the phase that follows a focus period which ends with cycleCount c
BreakAfter(c) ==
    IF Rem(c + 1, CyclesBeforeLong(ui)) = 0 THEN LONG ELSE SHORT

\* the end of a phase of the running timer enters the next one: a break after
\* FOCUS, the long one when the count reaches a multiple of cyclesBeforeLong,
\* and FOCUS after a break
C20_EntersNext ==
    state.isRunning /\ state'.phase # state.phase =>
        /\ state'.isRunning
        /\ IF state.phase = FOCUS
           THEN /\ state'.phase = BreakAfter(state.cycleCount)
                /\ state'.cycleCount = state.cycleCount + 1
           ELSE /\ state'.phase = FOCUS
                /\ state'.cycleCount = state.cycleCount

====
